---- MODULE Spec2Model ----
(***************************************************************************)
(* Model of the AD5668 DAC driver (src/src/lib.rs): the command codec      *)
(* encode_update_command and the driver AD5668<SPI, CS> that frames every  *)
(* bus write with a chip-select low/high pair.                             *)
(***************************************************************************)
EXTENDS Integers, Sequences, FiniteSets, TLC

(***************************************************************************)
(* Bounds of the model.                                                    *)
(***************************************************************************)
\* per-command operations one driver instance performs in a run
MaxOps == 2
\* the nibbles 1..MaxNibble are sampled next to 0, 8 and 15 for codec inputs
MaxNibble == 2

(***************************************************************************)
(* Enumerations of the source, with their discriminants.                   *)
(***************************************************************************)
Address ==
    [DacA |-> 0, DacB |-> 1, DacC |-> 2, DacD |-> 3, DacE |-> 4, DacF |-> 5,
     DacG |-> 6, DacH |-> 7, AllDacs |-> 15]

InternalRef == [Disabled |-> 0, Enabled |-> 1]

Command ==
    [WriteInputRegister |-> 0, UpdateDacRegister |-> 1,
     WriteInputUpdateAll |-> 2, WriteUpdateDacChannel |-> 3,
     PowerDACUpDown |-> 4, LoadClearCodeRegister |-> 5,
     LoadLDACRegister |-> 6, Reset |-> 7, SetInternalRefRegister |-> 8]

(***************************************************************************)
(* Fixed-width integer arithmetic of the codec.                            *)
(***************************************************************************)
\* `x as u8`: truncation to 8 bits
AsU8(x) == x % 256

\* `x << n` on a u8 operand
ShlU8(x, n) == (x * (2 ^ n)) % 256

\* `x << n` on a u16 operand
ShlU16(x, n) == (x * (2 ^ n)) % 65536

\* `x >> n` on a u16 operand
ShrU16(x, n) == x \div (2 ^ n)

\* `a + b` on u8 operands, as a release build computes it (wrapping)
AddU8(a, b) == (a + b) % 256

\* the two operands of the addition that gives byte 1 of a frame
Byte1High(address) == ShlU8(AsU8(Address[address]), 4)
Byte1Low(value) == AsU8(ShrU16(value, 12))

\* does `a + b` on u8 operands leave the range of u8 (a panic in a build with
\* overflow checks, a wrapped sum otherwise)
AddU8Overflows(a, b) == a + b > 255

\* the codec with the value shifted by 11 instead of 12 in byte 1
encode_update_command_shift11(command, address, value) ==
    << AsU8(Command[command]),
       AddU8(ShlU8(AsU8(Address[address]), 4), AsU8(ShrU16(value, 11))),
       AsU8(ShrU16(value, 4)),
       AsU8(ShlU16(value, 4)) >>

\* the codec with the value shifted by 5 instead of 4 in byte 3
encode_update_command_shift5(command, address, value) ==
    << AsU8(Command[command]),
       AddU8(ShlU8(AsU8(Address[address]), 4), AsU8(ShrU16(value, 12))),
       AsU8(ShrU16(value, 4)),
       AsU8(ShlU16(value, 5)) >>

\* the codec with the middle byte taken from bits 15..8 of the value
encode_update_command_shift8(command, address, value) ==
    << AsU8(Command[command]),
       AddU8(ShlU8(AsU8(Address[address]), 4), AsU8(ShrU16(value, 12))),
       AsU8(ShrU16(value, 8)),
       AsU8(ShlU16(value, 4)) >>

\* the codec with the opcode shifted into the high nibble of byte 0
encode_update_command_high_opcode(command, address, value) ==
    << ShlU8(AsU8(Command[command]), 4),
       AddU8(ShlU8(AsU8(Address[address]), 4), AsU8(ShrU16(value, 12))),
       AsU8(ShrU16(value, 4)),
       AsU8(ShlU16(value, 4)) >>

encode_update_command(command, address, value) ==
    << AsU8(Command[command]),
       AddU8(ShlU8(AsU8(Address[address]), 4), AsU8(ShrU16(value, 12))),
       AsU8(ShrU16(value, 4)),
       AsU8(ShlU16(value, 4)) >>

(***************************************************************************)
(* Inputs.                                                                 *)
(***************************************************************************)
Commands == DOMAIN Command
Addresses == DOMAIN Address

Nibbles == {0, 8, 15} \cup (1 .. MaxNibble)

\* 16-bit values assembled from the sampled nibbles
Values ==
    {a * 4096 + b * 256 + c * 16 + d : a \in Nibbles, b \in Nibbles,
                                       c \in Nibbles, d \in Nibbles}

\* values the driver operations are called with
DriverValues == {0, 65535, 4660, 32769, 61455}

\* errors the bus write can report
BusErrors == {"E1", "E2"}

\* the capabilities a caller can hand to the driver
SpiCaps == {"spi1", "spi2"}
CsCaps == {"pinA", "pinB"}
NoCap == "none"

Ok == [ok |-> TRUE]
Err(e) == [ok |-> FALSE, err |-> e]
NoResult == [none |-> TRUE]
WriteResults == {Ok} \cup {Err(e) : e \in BusErrors}
\* the chip-select pin reports one error kind
PinResults == {Ok, Err("pin")}

VARIABLES
    pc,          \* position: "start", "idle", "set_low", "write", "set_high", "destroyed", "codec"
    spi,         \* AD5668.spi: the bus capability the driver owns
    chip_select, \* AD5668.chip_select: the pin capability the driver owns
    given,       \* the capabilities the caller passed to new
    returned,    \* the capabilities destroy handed back
    op,          \* the public operation in progress or last returned
    args,        \* its arguments: <<address, value>>, or << >> when it takes none
    data,        \* argument of write_spi
    events,      \* every pin and bus call made so far, oldest first
    mark,        \* Len(events) when the current operation was entered
    written,     \* the byte sequences passed to spi.write by the current operation
    cs_line,     \* electrical level of the chip-select line
    low_res,     \* what set_low returned in the current operation
    write_res,   \* what spi.write returned in the current operation
    high_res,    \* what the last set_high returned
    result,      \* value the last public operation returned
    ops,         \* per-command operations entered so far
    enc_in,      \* codec: the inputs <<command, address, value>>
    enc_out,     \* codec: the frame computed from enc_in, <<>> before
    enc_calls,   \* codec: calls of encode_update_command made with enc_in
    prev_result  \* history: what the public operation before the current one returned

vars == << pc, spi, chip_select, given, returned, op, args, data, events, mark,
           written, cs_line, low_res, write_res, high_res, result, ops,
           enc_in, enc_out, enc_calls, prev_result >>

driver_vars == << pc, spi, chip_select, given, returned, op, args, data, events,
                  mark, written, cs_line, low_res, write_res, high_res,
                  result, ops, prev_result >>

\* levels the line can have after a pin call asking for `level` returned r:
\* a call that reports an error may or may not have taken effect
LineAfter(level, r) == IF r.ok THEN {level} ELSE {level, cs_line}

Init ==
    /\ pc = "start"
    /\ spi = NoCap
    /\ chip_select = NoCap
    /\ given \in SpiCaps \X CsCaps
    /\ returned = << >>
    /\ op = "none"
    /\ args = << >>
    /\ data = << >>
    /\ events = << >>
    /\ mark = 0
    /\ written = << >>
    /\ cs_line \in {"high", "low"}
    /\ low_res = NoResult
    /\ write_res = NoResult
    /\ high_res = NoResult
    /\ result = NoResult
    /\ ops = 0
    /\ enc_in = << >>
    /\ enc_out = << >>
    /\ enc_calls = 0
    /\ prev_result = NoResult

(***************************************************************************)
(* AD5668::new                                                             *)
(***************************************************************************)
\* construction that toggles chip-select low and high
new_toggle ==
    /\ pc = "start"
    /\ \E r \in PinResults :
          /\ high_res' = r
          /\ cs_line' \in LineAfter("high", r)
    /\ events' = Append(Append(events, "low"), "high")
    /\ spi' = given[1]
    /\ chip_select' = given[2]
    /\ op' = "new"
    /\ args' = << >>
    /\ mark' = Len(events)
    /\ pc' = "idle"
    /\ UNCHANGED << given, returned, data, written, low_res, write_res,
                    result, ops, enc_in, enc_out, enc_calls, prev_result >>

new ==
    /\ pc = "start"
    /\ \E r \in PinResults :
          /\ high_res' = r
          /\ cs_line' \in LineAfter("high", r)
    /\ events' = Append(events, "high")
    /\ spi' = given[1]
    /\ chip_select' = given[2]
    /\ op' = "new"
    /\ args' = << >>
    /\ mark' = Len(events)
    /\ pc' = "idle"
    /\ UNCHANGED << given, returned, data, written, low_res, write_res,
                    result, ops, enc_in, enc_out, enc_calls, prev_result >>

(***************************************************************************)
(* AD5668::write_spi, one action per call it makes                         *)
(***************************************************************************)
\* entry that refuses to run after an operation that returned an error
enter_poisoned(name, arguments, bytes) ==
    /\ pc = "idle"
    /\ result = NoResult \/ result = Ok
    /\ ops < MaxOps
    /\ ops' = ops + 1
    /\ op' = name
    /\ args' = arguments
    /\ data' = bytes
    /\ mark' = Len(events)
    /\ written' = << >>
    /\ low_res' = NoResult
    /\ write_res' = NoResult
    /\ high_res' = NoResult
    /\ result' = NoResult
    /\ prev_result' = result
    /\ pc' = "set_low"
    /\ UNCHANGED << spi, chip_select, given, returned, events, cs_line,
                    enc_in, enc_out, enc_calls >>

\* entry of a public operation that hands `bytes` to write_spi
enter(name, arguments, bytes) ==
    /\ pc = "idle"
    /\ ops < MaxOps
    /\ ops' = ops + 1
    /\ op' = name
    /\ args' = arguments
    /\ data' = bytes
    /\ mark' = Len(events)
    /\ written' = << >>
    /\ low_res' = NoResult
    /\ write_res' = NoResult
    /\ high_res' = NoResult
    /\ result' = NoResult
    /\ prev_result' = result
    /\ pc' = "set_low"
    /\ UNCHANGED << spi, chip_select, given, returned, events, cs_line,
                    enc_in, enc_out, enc_calls >>

\* write_spi that gives up when set_low reports an error
write_spi_set_low_abort ==
    /\ pc = "set_low"
    /\ \E r \in PinResults :
          /\ low_res' = r
          /\ cs_line' \in LineAfter("low", r)
          /\ IF r.ok
             THEN pc' = "write" /\ result' = result
             ELSE pc' = "idle" /\ result' = Ok
    /\ events' = Append(events, "low")
    /\ UNCHANGED << spi, chip_select, given, returned, op, args, data, mark,
                    written, write_res, high_res, ops, enc_in, enc_out,
                    enc_calls, prev_result >>

write_spi_set_low ==
    /\ pc = "set_low"
    /\ \E r \in PinResults :
          /\ low_res' = r
          /\ cs_line' \in LineAfter("low", r)
    /\ events' = Append(events, "low")
    /\ pc' = "write"
    /\ UNCHANGED << spi, chip_select, given, returned, op, args, data, mark,
                    written, write_res, high_res, result, ops, enc_in,
                    enc_out, enc_calls, prev_result >>

\* write_spi that calls spi.write again after a failed write
write_spi_write_retry ==
    /\ pc = "write"
    /\ \E first \in WriteResults :
          IF first.ok
          THEN /\ write_res' = first
               /\ written' = Append(written, data)
               /\ events' = Append(events, "write")
          ELSE /\ write_res' \in WriteResults
               /\ written' = Append(Append(written, data), data)
               /\ events' = Append(Append(events, "write"), "write")
    /\ pc' = "set_high"
    /\ UNCHANGED << spi, chip_select, given, returned, op, args, data, mark,
                    cs_line, low_res, high_res, result, ops, enc_in,
                    enc_out, enc_calls, prev_result >>

\* write_spi that leaves with `?` on a failed write, before set_high
write_spi_write_early_return ==
    /\ pc = "write"
    /\ \E r \in WriteResults :
          /\ write_res' = r
          /\ IF r.ok
             THEN pc' = "set_high" /\ result' = result
             ELSE pc' = "idle" /\ result' = r
    /\ written' = Append(written, data)
    /\ events' = Append(events, "write")
    /\ UNCHANGED << spi, chip_select, given, returned, op, args, data, mark,
                    cs_line, low_res, high_res, ops, enc_in, enc_out, enc_calls, prev_result >>

write_spi_write ==
    /\ pc = "write"
    /\ write_res' \in WriteResults
    /\ written' = Append(written, data)
    /\ events' = Append(events, "write")
    /\ pc' = "set_high"
    /\ UNCHANGED << spi, chip_select, given, returned, op, args, data, mark,
                    cs_line, low_res, high_res, result, ops, enc_in,
                    enc_out, enc_calls, prev_result >>

\* write_spi that deasserts chip-select only after a successful write
write_spi_set_high_only_on_success ==
    /\ pc = "set_high"
    /\ IF write_res.ok
       THEN /\ \E r \in PinResults :
                  /\ high_res' = r
                  /\ cs_line' \in LineAfter("high", r)
            /\ events' = Append(events, "high")
       ELSE UNCHANGED << high_res, cs_line, events >>
    /\ result' = write_res
    /\ pc' = "idle"
    /\ UNCHANGED << spi, chip_select, given, returned, op, args, data, mark,
                    written, low_res, write_res, ops, enc_in, enc_out, enc_calls, prev_result >>

\* write_spi that reports a failed set_high when the write itself succeeded
write_spi_set_high_surfaced ==
    /\ pc = "set_high"
    /\ \E r \in PinResults :
          /\ high_res' = r
          /\ cs_line' \in LineAfter("high", r)
          /\ result' = IF write_res.ok /\ ~r.ok THEN r ELSE write_res
    /\ events' = Append(events, "high")
    /\ pc' = "idle"
    /\ UNCHANGED << spi, chip_select, given, returned, op, args, data, mark,
                    written, low_res, write_res, ops, enc_in, enc_out, enc_calls, prev_result >>

write_spi_set_high ==
    /\ pc = "set_high"
    /\ \E r \in PinResults :
          /\ high_res' = r
          /\ cs_line' \in LineAfter("high", r)
    /\ events' = Append(events, "high")
    /\ result' = write_res
    /\ pc' = "idle"
    /\ UNCHANGED << spi, chip_select, given, returned, op, args, data, mark,
                    written, low_res, write_res, ops, enc_in, enc_out, enc_calls, prev_result >>

(***************************************************************************)
(* The per-command operations                                              *)
(***************************************************************************)
write_input_register ==
    \E address \in Addresses, value \in DriverValues :
        enter("write_input_register", << address, value >>,
              encode_update_command("WriteInputRegister", address, value))

\* update_dac_register sending the opcode of write_input_register
update_dac_register_wrong_command ==
    \E address \in Addresses, value \in DriverValues :
        enter("update_dac_register", << address, value >>,
              encode_update_command("WriteInputRegister", address, value))

update_dac_register ==
    \E address \in Addresses, value \in DriverValues :
        enter("update_dac_register", << address, value >>,
              encode_update_command("UpdateDacRegister", address, value))

write_input_register_update_all ==
    \E address \in Addresses, value \in DriverValues :
        enter("write_input_register_update_all", << address, value >>,
              encode_update_command("WriteInputUpdateAll", address, value))

write_and_update_dac_channel ==
    \E address \in Addresses, value \in DriverValues :
        enter("write_and_update_dac_channel", << address, value >>,
              encode_update_command("WriteUpdateDacChannel", address, value))

\* the literal frames of the control operations
enable_internal_ref_frame ==
    << AsU8(Command.SetInternalRefRegister), 0, 0, AsU8(InternalRef.Enabled) >>

disable_internal_ref_frame ==
    << AsU8(Command.SetInternalRefRegister), 0, 0, AsU8(InternalRef.Disabled) >>

reset_frame == << AsU8(Command.Reset), 0, 0, 0 >>

\* enable_internal_ref sending the Disabled payload
enable_internal_ref_disabled ==
    enter("enable_internal_ref", << >>,
          << AsU8(Command.SetInternalRefRegister), 0, 0,
             AsU8(InternalRef.Disabled) >>)

enable_internal_ref ==
    enter("enable_internal_ref", << >>, enable_internal_ref_frame)

disable_internal_ref ==
    enter("disable_internal_ref", << >>, disable_internal_ref_frame)

reset ==
    enter("reset", << >>, reset_frame)

(***************************************************************************)
(* AD5668::destroy                                                         *)
(***************************************************************************)
\* destroy that deasserts chip-select before handing the capabilities back
destroy_deassert ==
    /\ pc = "idle"
    /\ returned' = << spi, chip_select >>
    /\ op' = "destroy"
    /\ args' = << >>
    /\ mark' = Len(events)
    /\ pc' = "destroyed"
    /\ events' = Append(events, "high")
    /\ cs_line' = "high"
    /\ UNCHANGED << spi, chip_select, given, data, written, low_res,
                    write_res, high_res, result, ops, enc_in, enc_out, enc_calls, prev_result >>

destroy ==
    /\ pc = "idle"
    /\ returned' = << spi, chip_select >>
    /\ op' = "destroy"
    /\ args' = << >>
    /\ mark' = Len(events)
    /\ pc' = "destroyed"
    /\ UNCHANGED << spi, chip_select, given, data, events, written, cs_line,
                    low_res, write_res, high_res, result, ops, enc_in,
                    enc_out, enc_calls, prev_result >>

Next ==
    \/ new
    \/ write_input_register
    \/ update_dac_register
    \/ write_input_register_update_all
    \/ write_and_update_dac_channel
    \/ enable_internal_ref
    \/ disable_internal_ref
    \/ reset
    \/ write_spi_set_low
    \/ write_spi_write
    \/ write_spi_set_high
    \/ destroy

Spec == Init /\ [][Next]_vars

(***************************************************************************)
(* The codec on its own: inputs drawn from Commands, Addresses and Values  *)
(***************************************************************************)
InitCodec ==
    /\ pc = "codec"
    /\ spi = NoCap
    /\ chip_select = NoCap
    /\ given = << NoCap, NoCap >>
    /\ returned = << >>
    /\ op = "none"
    /\ args = << >>
    /\ data = << >>
    /\ events = << >>
    /\ mark = 0
    /\ written = << >>
    /\ cs_line = "high"
    /\ low_res = NoResult
    /\ write_res = NoResult
    /\ high_res = NoResult
    /\ result = NoResult
    /\ ops = 0
    /\ enc_in \in Commands \X Addresses \X Values
    /\ enc_out = << >>
    /\ enc_calls = 0
    /\ prev_result = NoResult

encode ==
    /\ pc = "codec"
    /\ enc_out = << >>
    /\ enc_out' = encode_update_command(enc_in[1], enc_in[2], enc_in[3])
    /\ enc_calls' = 1
    /\ UNCHANGED << driver_vars, enc_in >>

\* a second call that reads the number of earlier calls (hidden state)
encode_again_stateful ==
    /\ pc = "codec"
    /\ enc_calls = 1
    /\ enc_out' = encode_update_command(enc_in[1], enc_in[2],
                                        (enc_in[3] + enc_calls) % 65536)
    /\ enc_calls' = 2
    /\ UNCHANGED << driver_vars, enc_in >>

\* a second call of encode_update_command with the same arguments
encode_again ==
    /\ pc = "codec"
    /\ enc_calls = 1
    /\ enc_out' = encode_update_command(enc_in[1], enc_in[2], enc_in[3])
    /\ enc_calls' = 2
    /\ UNCHANGED << driver_vars, enc_in >>

NextCodec == encode \/ encode_again

SpecCodec == InitCodec /\ [][NextCodec]_vars

(***************************************************************************)
(* Properties                                                              *)
(***************************************************************************)
PerCommandOps ==
    {"write_input_register", "update_dac_register",
     "write_input_register_update_all", "write_and_update_dac_channel",
     "enable_internal_ref", "disable_internal_ref", "reset"}

\* the pin and bus calls made since the current operation was entered
OpEvents == SubSeq(events, mark + 1, Len(events))

Framed == << "low", "write", "high" >>

\* the level the most recent chip-select call asked for
LastCs ==
    LET idx == {i \in 1 .. Len(events) : events[i] \in {"high", "low"}}
    IN  IF idx = {} THEN "none"
        ELSE events[CHOOSE i \in idx : \A j \in idx : j <= i]

\* C1: a per-command operation makes exactly the calls set_low, one
\* spi.write, set_high, in that order, whether the write succeeds or fails;
\* while it runs its calls are a prefix of that sequence, and a failed write
\* is not attempted again.
C1_FramedSequence ==
    op \in PerCommandOps =>
        /\ Len(OpEvents) <= 3
        /\ OpEvents = SubSeq(Framed, 1, Len(OpEvents))
        /\ Len(written) <= 1
        /\ pc = "idle" => OpEvents = Framed /\ Len(written) = 1
        /\ pc = "set_high" => OpEvents = << "low", "write" >>
        /\ pc = "write" => OpEvents = << "low" >>
        /\ pc = "set_low" => OpEvents = << >>

C1_Witness ==
    /\ pc = "idle"
    /\ op = "update_dac_register"
    /\ ~write_res.ok
    /\ OpEvents = Framed
    /\ Len(written) = 1

\* C2: when the bus write of a per-command operation fails with error e the
\* operation returns Err(e) itself and set_high is still called after the
\* failed write; when the write succeeds the operation returns Ok.
C2_ErrorVerbatim ==
    (pc = "idle" /\ op \in PerCommandOps) =>
        /\ \A e \in BusErrors :
              write_res = Err(e) =>
                  /\ result = Err(e)
                  /\ Len(OpEvents) = 3
                  /\ OpEvents[2] = "write"
                  /\ OpEvents[3] = "high"
        /\ write_res = Ok => result = Ok
        /\ write_res \in WriteResults

C2_Witness ==
    /\ pc = "idle"
    /\ op = "write_and_update_dac_channel"
    /\ write_res = Err("E2")
    /\ result = Err("E2")
    /\ OpEvents[3] = "high"

\* C3 as stated: the chip-select line is high whenever no public operation
\* is running, and low only inside a framed write.
C3_LineHighAtReturn ==
    /\ pc \in {"idle", "destroyed"} => cs_line = "high"
    /\ cs_line = "low" => pc \in {"start", "write", "set_high"}

\* C3 amended: at the return of every public operation, after construction
\* included, the most recent chip-select call is set_high, and the line is
\* high whenever that call succeeded; the most recent chip-select call is
\* set_low only inside a framed write, between its set_low and its set_high.
C3_DeassertRequestedAtReturn ==
    /\ pc \in {"idle", "destroyed"} =>
          /\ LastCs = "high"
          /\ high_res \in PinResults
          /\ high_res.ok => cs_line = "high"
    /\ LastCs = "low" => pc \in {"write", "set_high"}
    /\ pc \in {"write", "set_high"} => LastCs = "low"

C3_Witness ==
    /\ pc = "idle"
    /\ op \in PerCommandOps
    /\ ~write_res.ok
    /\ high_res.ok
    /\ ~low_res.ok
    /\ cs_line = "high"
    /\ LastCs = "high"

\* bit i of x
Bit(x, i) == (x \div (2 ^ i)) % 2

\* bits hi..lo of x, as a number
Bits(x, hi, lo) == (x \div (2 ^ lo)) % (2 ^ (hi - lo + 1))

\* bitwise OR of two bytes
BitOr(a, b) ==
    LET or(i) == IF Bit(a, i) = 1 \/ Bit(b, i) = 1 THEN 2 ^ i ELSE 0
    IN  or(0) + or(1) + or(2) + or(3) + or(4) + or(5) + or(6) + or(7)

\* the frame layout: opcode, address nibble OR top nibble of the value,
\* bits 11..4 of the value, low nibble of the value in the high nibble
LayoutFrame(command, address, value) ==
    << Command[command],
       BitOr(Address[address] * 16, Bits(value, 15, 12)),
       Bits(value, 11, 4),
       Bits(value, 3, 0) * 16 >>

\* C4: for every command kind, valid address and value the codec returns
\* the frame [opcode, (address << 4) OR (value >> 12), bits 11..4 of the
\* value, low 4 bits of the value << 4]; the three frames of the unit tests
\* are instances.
C4_FrameLayout ==
    /\ enc_out # << >> =>
          /\ Len(enc_out) = 4
          /\ enc_out = LayoutFrame(enc_in[1], enc_in[2], enc_in[3])
    /\ (enc_out # << >> /\ enc_in = << "WriteUpdateDacChannel", "DacA", 0 >>)
          => enc_out = << 3, 0, 0, 0 >>
    /\ (enc_out # << >> /\ enc_in = << "WriteInputRegister", "AllDacs", 0 >>)
          => enc_out = << 0, 240, 0, 0 >>
    /\ (enc_out # << >> /\ enc_in = << "WriteInputRegister", "DacA", 65535 >>)
          => enc_out = << 0, 15, 255, 240 >>

C4_Witness ==
    /\ enc_in = << "WriteInputRegister", "DacA", 65535 >>
    /\ enc_out = << 0, 15, 255, 240 >>

DataCommands ==
    {"WriteInputRegister", "UpdateDacRegister", "WriteInputUpdateAll",
     "WriteUpdateDacChannel"}

\* C5 as stated: in a frame of a data command the opcode is the high nibble
\* of byte 0 and the low nibble of byte 0 is zero.
C5_OpcodeHighNibble ==
    (enc_out # << >> /\ enc_in[1] \in DataCommands) =>
        /\ enc_out[1] \div 16 = Command[enc_in[1]]
        /\ enc_out[1] % 16 = 0

\* C5 amended: in every frame of the codec the opcode is the low nibble of
\* byte 0 and the high nibble of byte 0 is zero.
C5_OpcodeLowNibble ==
    enc_out # << >> =>
        /\ enc_out[1] % 16 = Command[enc_in[1]]
        /\ enc_out[1] \div 16 = 0

C5_Witness ==
    /\ Len(enc_out) = 4
    /\ enc_in[1] = "WriteUpdateDacChannel"
    /\ enc_in[3] = 65535
    /\ enc_out[1] = 3

\* C6: each control operation hands one fixed frame to its single bus
\* write, whatever was done before: enable_internal_ref [8,0,0,1],
\* disable_internal_ref [8,0,0,0], reset [7,0,0,0].
C6_ControlFrames ==
    LET fixed(name, frame) ==
            op = name =>
                /\ data = frame
                /\ written \in { << >>, << frame >> }
                /\ pc = "idle" => written = << frame >>
    IN  /\ fixed("enable_internal_ref", << 8, 0, 0, 1 >>)
        /\ fixed("disable_internal_ref", << 8, 0, 0, 0 >>)
        /\ fixed("reset", << 7, 0, 0, 0 >>)

C6_Witness ==
    /\ pc = "idle"
    /\ op = "enable_internal_ref"
    /\ ops >= 2
    /\ written = << << 8, 0, 0, 1 >> >>

\* the command each data operation encodes
CommandOf ==
    [write_input_register |-> "WriteInputRegister",
     update_dac_register |-> "UpdateDacRegister",
     write_input_register_update_all |-> "WriteInputUpdateAll",
     write_and_update_dac_channel |-> "WriteUpdateDacChannel"]

OpcodeOf ==
    [write_input_register |-> 0, update_dac_register |-> 1,
     write_input_register_update_all |-> 2,
     write_and_update_dac_channel |-> 3]

\* C7: each data operation writes exactly the frame the codec gives for its
\* own command and its arguments, with opcode 0, 1, 2, 3 respectively;
\* write_input_register_update_all(AllDacs, 0xffff) writes [2,255,255,240].
C7_DataFrames ==
    /\ op \in DOMAIN CommandOf =>
          LET frame == encode_update_command(CommandOf[op], args[1], args[2])
          IN  /\ data = frame
              /\ frame[1] = OpcodeOf[op]
              /\ SubSeq(frame, 2, 4)
                    = SubSeq(LayoutFrame(CommandOf[op], args[1], args[2]), 2, 4)
              /\ written \in { << >>, << frame >> }
              /\ pc \in {"set_high", "idle"} => written = << frame >>
    /\ (op = "write_input_register_update_all"
          /\ args = << "AllDacs", 65535 >> /\ pc = "idle")
          => written = << << 2, 255, 255, 240 >> >>

C7_Witness ==
    /\ pc = "idle"
    /\ op = "write_input_register_update_all"
    /\ args = << "AllDacs", 65535 >>
    /\ written = << << 2, 255, 255, 240 >> >>

\* C8: construction calls set_high exactly once and makes no set_low and no
\* bus write; that set_high is the first call of the run, so it precedes
\* every bus write of the driver.
C8_ConstructionDeasserts ==
    /\ pc = "start" => events = << >>
    /\ pc # "start" => Len(events) >= 1 /\ events[1] = "high"
    /\ op = "new" => events = << "high" >> /\ written = << >>
    /\ \A i \in 1 .. Len(events) : events[i] = "write" => i > 1

C8_Witness ==
    /\ op = "new"
    /\ pc = "idle"
    /\ events = << "high" >>
    /\ written = << >>

\* C9: chip-select errors are never surfaced: once set_high was called in
\* new the driver exists with the capabilities it was given, whatever that
\* call returned, and a per-command operation returns what its bus write
\* returned, never a pin error, whatever set_low and set_high returned.
C9_PinErrorsDiscarded ==
    /\ (op = "new" /\ high_res \in PinResults) =>
          pc = "idle" /\ << spi, chip_select >> = given
    /\ (pc = "idle" /\ op \in PerCommandOps) =>
          /\ low_res \in PinResults /\ high_res \in PinResults
          /\ result \in WriteResults
          /\ result = write_res

C9_Witness ==
    /\ pc = "idle"
    /\ op \in PerCommandOps
    /\ low_res = Err("pin")
    /\ high_res = Err("pin")
    /\ write_res = Ok
    /\ result = Ok

\* C10: destroy hands back the bus and chip-select capabilities the driver
\* was constructed with, makes no pin or bus call and leaves the line as it
\* is; nothing else hands capabilities back, and after destroy no operation
\* of that instance takes a step.
C10_DestroyReturnsCapabilities ==
    [][/\ pc' = "destroyed" =>
             /\ returned' = given
             /\ events' = events
             /\ cs_line' = cs_line
             /\ written' = written
       /\ returned' # returned => pc = "idle" /\ pc' = "destroyed"
       /\ pc' # "destroyed" => returned' = << >>
       /\ pc = "destroyed" => UNCHANGED vars]_vars

C10_Witness ==
    /\ pc = "destroyed"
    /\ op = "destroy"
    /\ returned = given
    /\ ops >= 1
    /\ events = << "high", "low", "write", "high" >>

C12_AssertFailureDoesNotAbort ==
    (op \in PerCommandOps /\ low_res = Err("pin")) =>
        /\ pc \in {"write", "set_high", "idle"}
        /\ pc = "write" => OpEvents = << "low" >> /\ written = << >>
        /\ pc = "set_high" =>
              OpEvents = << "low", "write" >> /\ written = << data >>
        /\ pc = "idle" =>
              /\ OpEvents = << "low", "write", "high" >>
              /\ written = << data >>
              /\ write_res \in WriteResults

C12_Witness ==
    /\ pc = "idle"
    /\ op = "reset"
    /\ low_res = Err("pin")
    /\ write_res = Ok
    /\ written = << << 7, 0, 0, 0 >> >>
    /\ OpEvents = << "low", "write", "high" >>

\* C13: for every valid address and value the sum (address << 4) +
\* (value >> 12) that gives byte 1 stays within 8 bits and equals the
\* bitwise OR of its operands, so byte 1 is that sum unwrapped; the
\* broadcast address gives high nibble 15 for every value.
C13_Byte1NoCarry ==
    enc_out # << >> =>
        LET hi == Byte1High(enc_in[2])
            lo == Byte1Low(enc_in[3])
        IN  /\ hi = Address[enc_in[2]] * 16
            /\ lo = enc_in[3] \div 4096
            /\ ~AddU8Overflows(hi, lo)
            /\ hi + lo <= 255
            /\ hi + lo = BitOr(hi, lo)
            /\ enc_out[2] = hi + lo
            /\ enc_in[2] = "AllDacs" => enc_out[2] \div 16 = 15

C13_Witness ==
    /\ enc_calls = 1
    /\ enc_in[2] = "AllDacs"
    /\ enc_in[3] = 65535
    /\ enc_out[2] = 255

\* the frame an operation writes on a freshly constructed driver
FreshFrame(name, arguments) ==
    IF name \in DOMAIN CommandOf
    THEN encode_update_command(CommandOf[name], arguments[1], arguments[2])
    ELSE IF name = "enable_internal_ref" THEN enable_internal_ref_frame
    ELSE IF name = "disable_internal_ref" THEN disable_internal_ref_frame
    ELSE reset_frame

\* C14: the driver keeps no memory of earlier operations: whatever the
\* operation before returned, every per-command operation can be entered,
\* and an operation that follows another one makes the calls set_low, one
\* write of its own frame, set_high and returns the result of its own bus
\* write, as it does right after construction.
C14_NoMemory ==
    /\ (pc = "idle" /\ ops < MaxOps) =>
          /\ ENABLED write_input_register
          /\ ENABLED update_dac_register
          /\ ENABLED write_input_register_update_all
          /\ ENABLED write_and_update_dac_channel
          /\ ENABLED enable_internal_ref
          /\ ENABLED disable_internal_ref
          /\ ENABLED reset
    /\ (op \in PerCommandOps /\ ops >= 2) => prev_result \in WriteResults
    /\ (op \in PerCommandOps /\ prev_result \in WriteResults) =>
          /\ data = FreshFrame(op, args)
          /\ pc = "set_low" =>
                /\ OpEvents = << >> /\ written = << >>
                /\ << low_res, write_res, high_res, result >>
                      = << NoResult, NoResult, NoResult, NoResult >>
          /\ pc = "idle" =>
                /\ OpEvents = Framed
                /\ written = << FreshFrame(op, args) >>
                /\ result = write_res

C14_Witness ==
    /\ pc = "idle"
    /\ ops = 2
    /\ op = "write_input_register"
    /\ prev_result = Err("E1")
    /\ result = Ok
    /\ OpEvents = Framed
    /\ written = << FreshFrame(op, args) >>

\* the 16-bit values that differ from v in exactly one bit
OneBitOff(v) ==
    {IF Bit(v, i) = 1 THEN v - 2 ^ i ELSE v + 2 ^ i : i \in 0 .. 15}

ControlFrames ==
    {enable_internal_ref_frame, disable_internal_ref_frame, reset_frame}

\* C15: the frames are unambiguous: in the frame of a data command byte 0
\* is the opcode, byte1 >> 4 is the address and (byte1 mod 16) * 4096 +
\* byte2 * 16 + (byte3 >> 4) is the value, so no other (data command,
\* address, value) gives the same frame; the three control frames differ
\* from each other and from every data frame.
C15_FramesUnambiguous ==
    /\ Cardinality(ControlFrames) = 3
    /\ (enc_out # << >> /\ enc_in[1] \in DataCommands) =>
          /\ enc_out[1] = Command[enc_in[1]]
          /\ enc_out[2] \div 16 = Address[enc_in[2]]
          /\ (enc_out[2] % 16) * 4096 + enc_out[3] * 16 + (enc_out[4] \div 16)
                = enc_in[3]
          /\ enc_out \notin ControlFrames
          /\ enc_calls = 1 =>
                \A c \in DataCommands, a \in Addresses,
                   v \in DriverValues \cup OneBitOff(enc_in[3]) \cup {enc_in[3]} :
                    encode_update_command(c, a, v) = enc_out
                        => << c, a, v >> = enc_in

C15_Witness ==
    /\ enc_calls = 1
    /\ enc_in = << "UpdateDacRegister", "DacH", 33023 >>
    /\ enc_out = << 1, 120, 15, 240 >>

====
